---- MODULE Spec2Model ----
(***************************************************************************)
(* Model of nvim-oxi's top-level bindings (src/toplevel/toplevel.rs):      *)
(*   print(text)    - binding to the global Lua function `print`           *)
(*   schedule(fun)  - binding to `vim.schedule`                            *)
(* Every Lua C API call of the two functions is one step of the model.     *)
(* The Lua state is the value stack and the registry table; the host       *)
(* (Neovim) is the queue of deferred callbacks and the message area.       *)
(***************************************************************************)
EXTENDS Integers, Sequences, FiniteSets, TLC

(* ----------------------------- bounds ---------------------------------- *)
MaxLen       == 2   \* longest text handed to print
MaxClosures  == 2   \* number of closures handed to schedule in one run
MaxHostDepth == 1   \* values the host keeps on the stack between operations
MaxMsgs      == 2   \* messages the message area keeps

Bytes    == {0, 72}                      \* 0 is the null byte, 72 is 'H'
Texts    == UNION {[1..n -> Bytes] : n \in 0..MaxLen}
Closures == 1..MaxClosures

(* ------------------------- Lua values ----------------------------------- *)
\* A Lua value: kind is "nil", "string", "table", "function" or "host";
\* id names a native closure (0 for every other value).
V(kind, name, str, id) == [kind |-> kind, name |-> name, str |-> str, id |-> id]
Nil             == V("nil", "", <<>>, 0)
PrintFn         == V("function", "print", <<>>, 0)
VimTable        == V("table", "vim", <<>>, 0)
ScheduleFn      == V("function", "vim.schedule", <<>>, 0)
LuaString(s)    == V("string", "", s, 0)
ClosureFn(c)    == V("function", "closure", <<>>, c)
HostValue       == V("host", "", <<>>, 0)

\* No print returned right before the operation entered last.
NoPrev == [valid |-> FALSE, arg |-> <<>>, log |-> <<>>, stack0 |-> <<>>]

\* One interaction with the interpreter, as recorded in the log of an operation.
I(api, name, str, n, r) == [api |-> api, name |-> name, str |-> str, n |-> n, r |-> r]

(* ----------------------------- state ------------------------------------ *)
VARIABLES
  pc,        \* position of the native caller: "idle", a step label, "returned", "raised"
  op,        \* operation entered last: "none", "print", "schedule"
  result,    \* what the operation handed back: "none", "pending", "Ok", "InvalidArgument", "unit"
  arg,       \* print: the text handed in
  text,      \* print: the CString built from the argument (null-terminated)
  stack,     \* the Lua value stack
  stack0,    \* the stack when the operation was entered
  reg,       \* the registry's array part: reg[i] is a value or Nil
  free,      \* the registry's list of freed references, most recent first
  reg0,      \* the registry array when the operation was entered
  luaref,    \* schedule: the local `luaref`
  cur,       \* the closure handed to the schedule call entered last (0: none yet)
  handle,    \* handle[c]: the reference once_to_luaref returned for closure c (0: none)
  released,  \* released[c]: number of luaL_unref calls on closure c's reference
  once,      \* once[c]: TRUE while the FnOnce of closure c has not been taken
  invoked,   \* invoked[c]: number of times the body of closure c ran
  exit,      \* exit[c]: "none", "running", "returned", "raised" for closure c's schedule call
  queue,     \* the host's queue of deferred callbacks (function values)
  messages,  \* the host's message area
  log,       \* interpreter interactions of the operation entered last
  prev       \* the print that returned Ok right before the operation entered last

vars == <<pc, op, result, arg, text, stack, stack0, reg, free, reg0, luaref, cur,
          handle, released, once, invoked, exit, queue, messages, log, prev>>

bridgeVars == <<handle, released, once, invoked, exit>>

Init ==
  /\ pc = "idle" /\ op = "none" /\ result = "none"
  /\ arg = <<>> /\ text = <<>>
  /\ stack = <<>> /\ stack0 = <<>>
  /\ reg = <<>> /\ free = <<>> /\ reg0 = <<>>
  /\ luaref = 0 /\ cur = 0
  /\ handle = [c \in Closures |-> 0]
  /\ released = [c \in Closures |-> 0]
  /\ once = [c \in Closures |-> TRUE]
  /\ invoked = [c \in Closures |-> 0]
  /\ exit = [c \in Closures |-> "none"]
  /\ queue = <<>> /\ messages = <<>>
  /\ log = <<>>
  /\ prev = NoPrev

\* The native caller is inside the closure handed to lua::with_state (lines
\* 27-31 of print, lines 48-63 of schedule): it has the interpreter state.
InScope ==
  pc \in {"p_getglobal", "p_pushstring", "p_call",
          "s_getglobal", "s_getfield", "s_register", "s_rawgeti", "s_call",
          "s_pop", "s_unref"}

\* The native caller is between two bridge operations.
Boundary == pc \in {"idle", "returned"}

(* ------------------------ Lua C API, as used ---------------------------- *)
Push(s, v)   == Append(s, v)
Top(s)       == s[Len(s)]

\* lua_pop(L, n)
lua_pop(s, n) == SubSeq(s, 1, Len(s) - n)

\* Variant of lua_call: one result is asked for (lua_call(L, nargs, 1)), so a
\* value is pushed when the callee returns.
lua_call_nresults1(s, nargs) == Append(SubSeq(s, 1, Len(s) - (nargs + 1)), Nil)

\* lua_call(L, nargs, 0) when the callee returns: the function and its
\* arguments are consumed, no result is pushed.
lua_call(s, nargs) == SubSeq(s, 1, Len(s) - (nargs + 1))

\* The function slot of a pending call with nargs arguments.
Callee(s, nargs) == s[Len(s) - nargs]

\* Variant of HasNul: only the first byte is looked at.
HasNul_FirstByte(t) == Len(t) > 0 /\ t[1] = 0

\* std::ffi::CString::new: an interior null byte is an error (NulError),
\* otherwise the bytes followed by the terminating null.
HasNul(t)     == \E i \in 1..Len(t) : t[i] = 0
CStringNew(t) == Append(t, 0)

\* lua_pushstring(L, ptr): the bytes at ptr up to the first null byte.
FirstNul(cs)       == CHOOSE i \in 1..Len(cs) : cs[i] = 0 /\ \A j \in 1..(i - 1) : cs[j] # 0
lua_pushstring(cs) == LuaString(SubSeq(cs, 1, FirstNul(cs) - 1))

\* The stack of the calling frame when a call with nargs arguments raises a
\* Lua error: the function and its arguments went to the callee; nothing the
\* caller pushed below them is removed, and control does not come back.
lua_error(s, nargs) == SubSeq(s, 1, Len(s) - (nargs + 1))

\* luaL_ref(L, LUA_REGISTRYINDEX) on value v: the most recently freed
\* reference if there is one, otherwise the next array index.
luaL_ref_key(r, f)  == IF f # <<>> THEN Head(f) ELSE Len(r) + 1
luaL_ref_reg(r, f, v) ==
  IF f # <<>> THEN [r EXCEPT ![Head(f)] = v] ELSE Append(r, v)
luaL_ref_free(f)    == IF f # <<>> THEN Tail(f) ELSE f

\* luaL_unref(L, LUA_REGISTRYINDEX, ref): clear the slot, put ref on the free list.
luaL_unref_reg(r, ref)  == IF ref \in 1..Len(r) THEN [r EXCEPT ![ref] = Nil] ELSE r
luaL_unref_free(f, ref) == IF ref >= 1 THEN <<ref>> \o f ELSE f

\* lua_rawgeti(L, LUA_REGISTRYINDEX, ref): the value stored under ref, or nil.
lua_rawgeti(r, ref) == IF ref \in 1..Len(r) THEN r[ref] ELSE Nil

\* What the host may hold under a global name or under a field of `vim` when
\* the bridge looks it up (the name may be missing).
Global(name) == IF name = "print" THEN {PrintFn, Nil} ELSE {VimTable, Nil}
Field(name)  == {ScheduleFn, Nil}

\* The closures the registry refers to.
Registered == {c \in Closures : \E i \in 1..Len(reg) : reg[i] = ClosureFn(c)}

(* ------------------------------ print ----------------------------------- *)
\* Variant of print_enter: the global is looked up before with_state is
\* entered.
print_enter_lookup_outside(t) ==
  /\ Boundary
  /\ Len(messages) < MaxMsgs
  /\ op' = "print" /\ arg' = t
  /\ prev' = NoPrev
  /\ stack0' = stack /\ reg0' = reg
  /\ \E g \in Global("print") : stack' = Push(stack, g)
  /\ log' = <<I("getglobal", "print", <<>>, 0, 0)>>
  /\ IF HasNul(t)
       THEN /\ result' = "InvalidArgument"
            /\ pc' = "returned"
            /\ text' = <<>>
       ELSE /\ result' = "pending"
            /\ pc' = "p_pushstring"
            /\ text' = CStringNew(t)
  /\ UNCHANGED <<reg, free, luaref, cur, queue, messages>>
  /\ UNCHANGED bridgeVars

\* print, lines 24-25: CString::new(text.into())? ; an interior null byte
\* returns the error before with_state is entered.
print_enter(t) ==
  /\ Boundary
  /\ Len(messages) < MaxMsgs
  /\ op' = "print" /\ arg' = t
  /\ prev' = IF op = "print" /\ pc = "returned" /\ result = "Ok"
               THEN [valid |-> TRUE, arg |-> arg, log |-> log, stack0 |-> stack0]
               ELSE NoPrev
  /\ stack0' = stack /\ reg0' = reg /\ log' = <<>>
  /\ IF HasNul(t)
       THEN /\ result' = "InvalidArgument"
            /\ pc' = "returned"
            /\ text' = <<>>
       ELSE /\ result' = "pending"
            /\ pc' = "p_getglobal"
            /\ text' = CStringNew(t)
  /\ UNCHANGED <<stack, reg, free, luaref, cur, queue, messages>>
  /\ UNCHANGED bridgeVars

\* Variant of print_getglobal: the global is looked up and pushed twice.
print_getglobal_twice ==
  /\ pc = "p_getglobal"
  /\ UNCHANGED prev
  /\ \E g \in Global("print") : stack' = Push(Push(stack, g), g)
  /\ log' = log \o <<I("getglobal", "print", <<>>, 0, 0), I("getglobal", "print", <<>>, 0, 0)>>
  /\ pc' = "p_pushstring"
  /\ UNCHANGED <<op, result, arg, text, stack0, reg, free, reg0, luaref, cur, queue, messages>>
  /\ UNCHANGED bridgeVars

\* line 28: ffi::lua_getglobal(lstate, cstr!("print"))
print_getglobal ==
  /\ pc = "p_getglobal"
  /\ UNCHANGED prev
  /\ \E g \in Global("print") : stack' = Push(stack, g)
  /\ log' = Append(log, I("getglobal", "print", <<>>, 0, 0))
  /\ pc' = "p_pushstring"
  /\ UNCHANGED <<op, result, arg, text, stack0, reg, free, reg0, luaref, cur, queue, messages>>
  /\ UNCHANGED bridgeVars

\* line 29: ffi::lua_pushstring(lstate, text.as_ptr())
print_pushstring ==
  /\ pc = "p_pushstring"
  /\ UNCHANGED prev
  /\ stack' = Push(stack, lua_pushstring(text))
  /\ log' = Append(log, I("pushstring", "", lua_pushstring(text).str, 0, 0))
  /\ pc' = "p_call"
  /\ UNCHANGED <<op, result, arg, text, stack0, reg, free, reg0, luaref, cur, queue, messages>>
  /\ UNCHANGED bridgeVars

\* Variant of print_call: the text of the last message is remembered, and a
\* text equal to it is dropped without a call.
print_call_dedupe ==
  /\ pc = "p_call"
  /\ UNCHANGED prev
  /\ IF messages # <<>> /\ messages[Len(messages)] = Top(stack).str
       THEN /\ log' = log
            /\ stack' = lua_pop(stack, 2)
            /\ messages' = messages
            /\ pc' = "p_return"
       ELSE /\ log' = Append(log, I("call", "", <<>>, 1, 0))
            /\ \/ /\ Callee(stack, 1).kind = "function"
                  /\ stack' = lua_call(stack, 1)
                  /\ messages' = Append(messages, Top(stack).str)
                  /\ pc' = "p_return"
               \/ /\ stack' = lua_error(stack, 1)
                  /\ messages' = messages
                  /\ pc' = "raised"
  /\ UNCHANGED <<op, result, arg, text, stack0, reg, free, reg0, luaref, cur, queue>>
  /\ UNCHANGED bridgeVars

\* line 30: ffi::lua_call(lstate, 1, 0). The call is unprotected: the global
\* either returns (the host emits the message) or raises a Lua error, and a
\* raised error leaves print without running the rest of it.
print_call ==
  /\ pc = "p_call"
  /\ UNCHANGED prev
  /\ log' = Append(log, I("call", "", <<>>, 1, 0))
  /\ \/ /\ Callee(stack, 1).kind = "function"
        /\ stack' = lua_call(stack, 1)
        /\ messages' = Append(messages, Top(stack).str)
        /\ pc' = "p_return"
     \/ /\ stack' = lua_error(stack, 1)
        /\ messages' = messages
        /\ pc' = "raised"
  /\ UNCHANGED <<op, result, arg, text, stack0, reg, free, reg0, luaref, cur, queue>>
  /\ UNCHANGED bridgeVars

\* Variant of print_return: the first registry reference is released on the
\* way out.
print_return_unref ==
  /\ pc = "p_return"
  /\ UNCHANGED prev
  /\ result' = "Ok"
  /\ pc' = "returned"
  /\ reg' = luaL_unref_reg(reg, 1)
  /\ free' = luaL_unref_free(free, 1)
  /\ UNCHANGED <<op, arg, text, stack, stack0, reg0, luaref, cur, queue, messages, log>>
  /\ UNCHANGED bridgeVars

\* lines 31-33: with_state returns, print returns Ok(()).
print_return ==
  /\ pc = "p_return"
  /\ UNCHANGED prev
  /\ result' = "Ok"
  /\ pc' = "returned"
  /\ UNCHANGED <<op, arg, text, stack, stack0, reg, free, reg0, luaref, cur, queue, messages, log>>
  /\ UNCHANGED bridgeVars

(* ----------------------------- schedule --------------------------------- *)
\* lua::once_to_luaref(fun): wrap the FnOnce in a Lua function and store that
\* function in the registry with luaL_ref; the closure is not run. The
\* result is <<reference, registry array, free list>>.
once_to_luaref(c, r, f) ==
  <<luaL_ref_key(r, f), luaL_ref_reg(r, f, ClosureFn(c)), luaL_ref_free(f)>>

\* Variant of schedule_enter: the closure is registered on entry, before the
\* lookups of `vim` and of its field.
schedule_enter_registers ==
  /\ Boundary
  /\ cur < MaxClosures
  /\ cur' = cur + 1
  /\ op' = "schedule" /\ result' = "pending"
  /\ prev' = NoPrev
  /\ exit' = [exit EXCEPT ![cur + 1] = "running"]
  /\ stack0' = stack /\ reg0' = reg /\ log' = <<>>
  /\ luaref' = once_to_luaref(cur + 1, reg, free)[1]
  /\ reg' = once_to_luaref(cur + 1, reg, free)[2]
  /\ free' = once_to_luaref(cur + 1, reg, free)[3]
  /\ handle' = [handle EXCEPT ![cur + 1] = once_to_luaref(cur + 1, reg, free)[1]]
  /\ pc' = "s_getglobal"
  /\ UNCHANGED <<arg, text, stack, queue, messages>>
  /\ UNCHANGED <<released, once, invoked>>

\* schedule, lines 40-48: entered with the closure `fun`.
schedule_enter ==
  /\ Boundary
  /\ cur < MaxClosures
  /\ cur' = cur + 1
  /\ op' = "schedule" /\ result' = "pending"
  /\ prev' = NoPrev
  /\ exit' = [exit EXCEPT ![cur + 1] = "running"]
  /\ stack0' = stack /\ reg0' = reg /\ log' = <<>>
  /\ luaref' = 0
  /\ pc' = "s_getglobal"
  /\ UNCHANGED <<arg, text, stack, reg, free, queue, messages>>
  /\ UNCHANGED <<handle, released, once, invoked>>

\* line 50: ffi::lua_getglobal(lstate, cstr!("vim"))
schedule_getglobal ==
  /\ pc = "s_getglobal"
  /\ UNCHANGED prev
  /\ \E g \in Global("vim") : stack' = Push(stack, g)
  /\ log' = Append(log, I("getglobal", "vim", <<>>, 0, 0))
  /\ pc' = "s_getfield"
  /\ UNCHANGED <<op, result, arg, text, stack0, reg, free, reg0, luaref, cur, queue, messages>>
  /\ UNCHANGED bridgeVars

\* line 51: ffi::lua_getfield(lstate, -1, cstr!("schedule")); indexing nil
\* raises a Lua error.
schedule_getfield ==
  /\ pc = "s_getfield"
  /\ UNCHANGED prev
  /\ log' = Append(log, I("getfield", "schedule", <<>>, -1, 0))
  /\ IF Top(stack).kind = "table"
       THEN /\ \E f \in Field("schedule") : stack' = Push(stack, f)
            /\ pc' = "s_register"
            /\ exit' = exit
       ELSE /\ stack' = stack
            /\ pc' = "raised"
            /\ exit' = [exit EXCEPT ![cur] = "raised"]
  /\ UNCHANGED <<op, result, arg, text, stack0, reg, free, reg0, luaref, cur, queue, messages>>
  /\ UNCHANGED <<handle, released, once, invoked>>

\* line 55: let luaref = lua::once_to_luaref(fun)
schedule_once_to_luaref ==
  /\ pc = "s_register"
  /\ UNCHANGED prev
  /\ luaref' = once_to_luaref(cur, reg, free)[1]
  /\ reg' = once_to_luaref(cur, reg, free)[2]
  /\ free' = once_to_luaref(cur, reg, free)[3]
  /\ handle' = [handle EXCEPT ![cur] = once_to_luaref(cur, reg, free)[1]]
  /\ log' = Append(log, I("ref", "", <<>>, once_to_luaref(cur, reg, free)[1], 0))
  /\ pc' = "s_rawgeti"
  /\ UNCHANGED <<op, result, arg, text, stack, stack0, reg0, cur, queue, messages>>
  /\ UNCHANGED <<released, once, invoked, exit>>

\* Variant of schedule_rawgeti: the value on top of the stack (the entry
\* point) is pushed again instead of the function stored under `luaref`.
schedule_rawgeti_dup ==
  /\ pc = "s_rawgeti"
  /\ UNCHANGED prev
  /\ stack' = Push(stack, Top(stack))
  /\ log' = Append(log, I("pushvalue", "", <<>>, -1, 0))
  /\ pc' = "s_call"
  /\ UNCHANGED <<op, result, arg, text, stack0, reg, free, reg0, luaref, cur, queue, messages>>
  /\ UNCHANGED bridgeVars

\* Variant of schedule_rawgeti: the reference is released as soon as the
\* function has been read, before the call.
schedule_rawgeti_unref ==
  /\ pc = "s_rawgeti"
  /\ UNCHANGED prev
  /\ stack' = Push(stack, lua_rawgeti(reg, luaref))
  /\ reg' = luaL_unref_reg(reg, luaref)
  /\ free' = luaL_unref_free(free, luaref)
  /\ log' = log \o <<I("rawgeti", "", <<>>, luaref, 0), I("unref", "", <<>>, luaref, 0)>>
  /\ pc' = "s_call"
  /\ UNCHANGED <<op, result, arg, text, stack0, reg0, luaref, cur, queue, messages>>
  /\ UNCHANGED bridgeVars

\* line 56: ffi::lua_rawgeti(lstate, ffi::LUA_REGISTRYINDEX, luaref)
schedule_rawgeti ==
  /\ pc = "s_rawgeti"
  /\ UNCHANGED prev
  /\ stack' = Push(stack, lua_rawgeti(reg, luaref))
  /\ log' = Append(log, I("rawgeti", "", <<>>, luaref, 0))
  /\ pc' = "s_call"
  /\ UNCHANGED <<op, result, arg, text, stack0, reg, free, reg0, luaref, cur, queue, messages>>
  /\ UNCHANGED bridgeVars

\* vim.schedule(fn) in the host when it returns: the host keeps its own
\* reference to the function value at the end of its queue.
Deferred(q, fn) == Append(q, fn)

\* Variant of schedule_call: the function on top of the stack is called on the
\* spot instead of being handed to vim.schedule, so the closure runs inside
\* schedule.
schedule_call_sync ==
  /\ pc = "s_call"
  /\ UNCHANGED prev
  /\ log' = Append(log, I("call", "", <<>>, 0, 0))
  /\ Top(stack).id \in Closures
  /\ once' = [once EXCEPT ![Top(stack).id] = FALSE]
  /\ invoked' = [invoked EXCEPT ![Top(stack).id] = IF once[Top(stack).id] THEN @ + 1 ELSE @]
  /\ stack' = lua_pop(stack, 2)
  /\ pc' = "s_pop"
  /\ UNCHANGED <<op, result, arg, text, stack0, reg, free, reg0, luaref, cur, queue, messages>>
  /\ UNCHANGED <<handle, released, exit>>

\* line 58: ffi::lua_call(lstate, 1, 0). The call is unprotected. vim.schedule
\* returns after queueing a function argument, or the call raises a Lua error
\* (the callee is not callable, the argument is not a function, or the host
\* function raises); a raised error leaves schedule without running lines 61-62.
schedule_call ==
  /\ pc = "s_call"
  /\ UNCHANGED prev
  /\ log' = Append(log, I("call", "", <<>>, 1, 0))
  /\ \/ /\ Callee(stack, 1).kind = "function"
        /\ Top(stack).kind = "function"
        /\ queue' = Deferred(queue, Top(stack))
        /\ stack' = lua_call(stack, 1)
        /\ pc' = "s_pop"
        /\ exit' = exit
     \/ /\ queue' = queue
        /\ stack' = lua_error(stack, 1)
        /\ pc' = "raised"
        /\ exit' = [exit EXCEPT ![cur] = "raised"]
  /\ UNCHANGED <<op, result, arg, text, stack0, reg, free, reg0, luaref, cur, messages>>
  /\ UNCHANGED <<handle, released, once, invoked>>

\* Variant of schedule_pop: the reference is released together with the pop,
\* before line 62 releases it again.
schedule_pop_unref ==
  /\ pc = "s_pop"
  /\ UNCHANGED prev
  /\ stack' = lua_pop(stack, 1)
  /\ reg' = luaL_unref_reg(reg, luaref)
  /\ free' = luaL_unref_free(free, luaref)
  /\ released' = [released EXCEPT ![cur] = @ + 1]
  /\ log' = log \o <<I("pop", "", <<>>, 1, 0), I("unref", "", <<>>, luaref, 0)>>
  /\ pc' = "s_unref"
  /\ UNCHANGED <<op, result, arg, text, stack0, reg0, luaref, cur, queue, messages>>
  /\ UNCHANGED <<handle, once, invoked, exit>>

\* Variant of schedule_pop: the receiver is left on the stack.
schedule_pop_skip ==
  /\ pc = "s_pop"
  /\ UNCHANGED prev
  /\ pc' = "s_unref"
  /\ UNCHANGED <<op, result, arg, text, stack, stack0, reg, free, reg0, luaref, cur, queue, messages, log>>
  /\ UNCHANGED bridgeVars

\* line 61: ffi::lua_pop(lstate, 1)
schedule_pop ==
  /\ pc = "s_pop"
  /\ UNCHANGED prev
  /\ stack' = lua_pop(stack, 1)
  /\ log' = Append(log, I("pop", "", <<>>, 1, 0))
  /\ pc' = "s_unref"
  /\ UNCHANGED <<op, result, arg, text, stack0, reg, free, reg0, luaref, cur, queue, messages>>
  /\ UNCHANGED bridgeVars

\* Variant of schedule_unref: the reference is not released.
schedule_unref_skip ==
  /\ pc = "s_unref"
  /\ UNCHANGED prev
  /\ pc' = "s_return"
  /\ UNCHANGED <<op, result, arg, text, stack, stack0, reg, free, reg0, luaref, cur, queue, messages, log>>
  /\ UNCHANGED bridgeVars

\* line 62: ffi::luaL_unref(lstate, ffi::LUA_REGISTRYINDEX, luaref)
schedule_unref ==
  /\ pc = "s_unref"
  /\ UNCHANGED prev
  /\ reg' = luaL_unref_reg(reg, luaref)
  /\ free' = luaL_unref_free(free, luaref)
  /\ released' = [released EXCEPT ![cur] = @ + 1]
  /\ log' = Append(log, I("unref", "", <<>>, luaref, 0))
  /\ pc' = "s_return"
  /\ UNCHANGED <<op, result, arg, text, stack, stack0, reg0, luaref, cur, queue, messages>>
  /\ UNCHANGED <<handle, once, invoked, exit>>

\* lines 63-64: with_state returns, schedule returns ().
schedule_return ==
  /\ pc = "s_return"
  /\ UNCHANGED prev
  /\ result' = "unit"
  /\ exit' = [exit EXCEPT ![cur] = "returned"]
  /\ pc' = "returned"
  /\ UNCHANGED <<op, arg, text, stack, stack0, reg, free, reg0, luaref, cur, queue, messages, log>>
  /\ UNCHANGED <<handle, released, once, invoked>>

(* ------------------------------- host ----------------------------------- *)
\* Once the host runs again, the frame of the native caller is gone: what
\* the last operation handed back and its locals are no longer there.
CallerGone ==
  /\ op' = "none" /\ result' = "none"
  /\ arg' = <<>> /\ text' = <<>> /\ luaref' = 0
  /\ stack0' = <<>> /\ reg0' = <<>> /\ log' = <<>>
  /\ prev' = NoPrev

\* Between two bridge operations the host uses the stack for its own values.
HostPush ==
  /\ Boundary
  /\ Len(stack) < MaxHostDepth
  /\ stack' = Push(stack, HostValue)
  /\ pc' = "idle"
  /\ CallerGone
  /\ UNCHANGED <<reg, free, cur, queue, messages>>
  /\ UNCHANGED bridgeVars

HostPop ==
  /\ Boundary
  /\ Len(stack) > 0
  /\ stack' = lua_pop(stack, 1)
  /\ pc' = "idle"
  /\ CallerGone
  /\ UNCHANGED <<reg, free, cur, queue, messages>>
  /\ UNCHANGED bridgeVars

\* The host clears its message area.
HostClear ==
  /\ Boundary
  /\ messages # <<>>
  /\ messages' = <<>>
  /\ pc' = "idle"
  /\ CallerGone
  /\ UNCHANGED <<stack, reg, free, cur, queue>>
  /\ UNCHANGED bridgeVars

\* The host's event loop calls the function at the head of its queue with no
\* argument. The function once_to_luaref made takes the FnOnce and runs it;
\* a second call finds it taken and runs nothing.
HostRunDeferred ==
  /\ Boundary
  /\ queue # <<>>
  /\ queue' = Tail(queue)
  /\ LET c == Head(queue).id IN
       IF c \in Closures /\ once[c]
         THEN /\ once' = [once EXCEPT ![c] = FALSE]
              /\ invoked' = [invoked EXCEPT ![c] = @ + 1]
         ELSE UNCHANGED <<once, invoked>>
  /\ pc' = "idle"
  /\ CallerGone
  /\ UNCHANGED <<stack, reg, free, cur, messages>>
  /\ UNCHANGED <<handle, released, exit>>

\* A raised Lua error lands in the protected call of the host that encloses
\* the native caller: the stack is cut back to the depth b at which that
\* protected call was made, which is at most the depth the operation found.
HostCatch ==
  /\ pc = "raised"
  /\ \E b \in 0..Len(stack0) : stack' = SubSeq(stack, 1, b)
  /\ pc' = "idle"
  /\ CallerGone
  /\ UNCHANGED <<reg, free, cur, queue, messages>>
  /\ UNCHANGED bridgeVars

(* ------------------------------ system ---------------------------------- *)
print ==
  \/ \E t \in Texts : print_enter(t)
  \/ print_getglobal
  \/ print_pushstring
  \/ print_call
  \/ print_return

schedule ==
  \/ schedule_enter
  \/ schedule_getglobal
  \/ schedule_getfield
  \/ schedule_once_to_luaref
  \/ schedule_rawgeti
  \/ schedule_call
  \/ schedule_pop
  \/ schedule_unref
  \/ schedule_return

Host ==
  \/ HostPush
  \/ HostPop
  \/ HostClear
  \/ HostRunDeferred
  \/ HostCatch

Next == print \/ schedule \/ Host

Spec == Init /\ [][Next]_vars

\* A step inside an operation that has been entered. Both operations are
\* synchronous, bounded sequences of calls: once entered they run to their exit.
BridgeStep ==
  \/ print_getglobal \/ print_pushstring \/ print_call \/ print_return
  \/ schedule_getglobal \/ schedule_getfield \/ schedule_once_to_luaref
  \/ schedule_rawgeti \/ schedule_call \/ schedule_pop \/ schedule_unref
  \/ schedule_return

\* The system with a fair host: an entered operation runs on, a raised error
\* is caught, and the host's event loop keeps draining its queue whenever the
\* native side gives control back.
FairSpec ==
  /\ Spec
  /\ WF_vars(BridgeStep)
  /\ WF_vars(HostCatch)
  /\ SF_vars(HostRunDeferred)

(* ============================ properties ================================ *)
\* A text with a null byte anywhere in it.
EmbeddedNul(t) == \E i \in DOMAIN t : t[i] = 0

\* The operation entered last has left: by returning or by a raised Lua error.
Exited == pc \in {"returned", "raised"}

\* The positions of the log at which the interaction `api` was made.
LogAt(api) == {i \in 1..Len(log) : log[i].api = api}

\* The function of closure c is waiting in the host's queue.
Queued(c) == \E i \in 1..Len(queue) : queue[i] = ClosureFn(c)

\* C1: for every closure passed to schedule, the registry handle obtained at
\* registration is released exactly once after the deferral call, both when
\* the call to vim.schedule succeeds and when it raises a Lua error.
C1_ReleasedOnceOnEveryExit ==
  \A c \in Closures :
    (exit[c] \in {"returned", "raised"} /\ handle[c] # 0) => released[c] = 1

\* C2: for a text with an embedded null byte, print returns InvalidArgument
\* and makes no interpreter interaction: no lookup, no push, no call; the
\* stack and the registry are as before the call.
C2_NulTextNoInteraction ==
  (op = "print" /\ EmbeddedNul(arg)) =>
     /\ pc = "returned"
     /\ result = "InvalidArgument"
     /\ log = <<>>
     /\ stack = stack0
     /\ reg = reg0

C2_Witness ==
  /\ op = "print" /\ pc = "returned" /\ result = "InvalidArgument"
  /\ Len(arg) = 2 /\ arg[1] # 0 /\ arg[2] = 0
  /\ stack # <<>>

\* C3: for every text without an embedded null byte, print succeeds (it is
\* never refused, and it returns Ok), and the stack after the call is the
\* stack before the call.
C3_ValidTextOkAndBalanced ==
  (op = "print" /\ ~EmbeddedNul(arg)) =>
     /\ result # "InvalidArgument"
     /\ pc = "returned" => (result = "Ok" /\ stack = stack0)

C3_Witness ==
  /\ op = "print" /\ pc = "returned" /\ result = "Ok"
  /\ arg = <<72, 72>>
  /\ stack # <<>>

\* C4: a closure passed to schedule is never invoked while schedule is still
\* executing: a closure that ran (or whose FnOnce was taken) belongs to a
\* schedule call that has returned; registration does not invoke it.
C4_NotInvokedInsideSchedule ==
  \A c \in Closures :
    (invoked[c] > 0 \/ ~once[c]) => exit[c] = "returned"

C4_Witness ==
  \E c \in Closures : invoked[c] = 1 /\ exit[c] = "returned"

\* C5: across any sequence of schedule calls and host steps, each scheduled
\* closure is invoked at most once, and only by a step of the host's
\* scheduler taken between bridge operations; no bridge step invokes it.
C5_InvokedAtMostOnceByHost ==
  [][ /\ \A c \in Closures : invoked'[c] <= 1
      /\ (invoked' # invoked \/ once' # once) =>
            /\ Boundary
            /\ queue # <<>> /\ queue' = Tail(queue)
            /\ \A c \in Closures :
                 invoked'[c] # invoked[c] => Head(queue) = ClosureFn(c) ]_vars

C5_Witness ==
  /\ \A c \in Closures : invoked[c] = 1
  /\ queue = <<>>

\* C6 (as stated): no behaviour contains both a release of a handle and a host
\* invocation of the closure the handle referred to.
C6_NeverReleasedAndInvoked ==
  \A c \in Closures : ~(released[c] >= 1 /\ invoked[c] >= 1)

\* C6 (amended): every handle created by schedule is released by the bridge at
\* most once and its closure is invoked by the host at most once; the host
\* invokes the closure only after the bridge has released the handle.
C6_ReleasedThenInvoked ==
  \A c \in Closures :
    /\ released[c] <= 1
    /\ invoked[c] <= 1
    /\ invoked[c] = 1 => released[c] = 1

C6_Witness ==
  \E c \in Closures : released[c] = 1 /\ invoked[c] = 1 /\ handle[c] # 0

\* C7: whenever schedule has returned, the registry holds no entry for the
\* closure that was scheduled, also while the host has not yet drained its
\* queue.
C7_NoEntryAfterReturn ==
  \A c \in Closures : exit[c] = "returned" => c \notin Registered

C7_Witness ==
  \E c \in Closures :
    /\ exit[c] = "returned" /\ pc = "returned" /\ op = "schedule"
    /\ Queued(c) /\ invoked[c] = 0
    /\ c \notin Registered

\* C8: when the global called by print, or the defer function called by
\* schedule, raises a Lua error, the stack depth at the exit of the operation
\* equals the depth before it started.
C8_BalancedWhenCallRaises ==
  (pc = "raised" /\ log # <<>> /\ log[Len(log)].api = "call") =>
     Len(stack) = Len(stack0)

\* C9: when the deferral call succeeds, schedule leaves the stack as it found
\* it: after the call only the receiver `vim` is left above the old stack,
\* and it is removed by exactly one pop of one value.
C9_ScheduleBalanced ==
  /\ pc = "s_pop" => stack = Append(stack0, VimTable)
  /\ (op = "schedule" /\ pc = "returned") =>
        /\ stack = stack0
        /\ Cardinality(LogAt("pop")) = 1
        /\ \A i \in LogAt("pop") : log[i].n = 1

C9_Witness ==
  /\ op = "schedule" /\ pc = "returned" /\ cur = MaxClosures
  /\ stack # <<>> /\ stack = stack0
  /\ exit[1] = "raised"

\* C10: a print call with a valid text makes exactly these interpreter
\* interactions, in this order: the lookup of the global `print`, the push of
\* the text as a string, one call with one argument and no result; when the
\* call returns the depth of the stack is the depth before.
C10_PrintInteractions ==
  (op = "print" /\ Exited /\ ~EmbeddedNul(arg)) =>
     /\ log = << I("getglobal", "print", <<>>, 0, 0),
                 I("pushstring", "", arg, 0, 0),
                 I("call", "", <<>>, 1, 0) >>
     /\ pc = "returned" => Len(stack) = Len(stack0)

C10_Witness ==
  /\ op = "print" /\ pc = "returned" /\ result = "Ok"
  /\ arg = <<72, 72>>
  /\ Len(log) = 3
  /\ messages # <<>> /\ messages[Len(messages)] = arg

\* C11: calling print twice with the same valid text gives two message
\* emissions and two net-zero stack deltas: the second call makes the same
\* interactions as the first, whatever the first left behind.
C11_SecondPrintSame ==
  (op = "print" /\ pc = "returned" /\ result = "Ok" /\ prev.valid /\ prev.arg = arg) =>
     /\ log = prev.log
     /\ stack0 = prev.stack0
     /\ stack = stack0
     /\ Len(messages) >= 2
     /\ messages[Len(messages)] = arg
     /\ messages[Len(messages) - 1] = arg

C11_Witness ==
  /\ op = "print" /\ pc = "returned" /\ result = "Ok"
  /\ prev.valid /\ prev.arg = arg /\ Len(arg) = MaxLen
  /\ messages = <<arg, arg>>
  /\ stack # <<>>

\* The lookup of `vim` or of its field `schedule` has not given a callable:
\* the step about to run indexes nil or calls a value that is no function.
DeferMissing ==
  \/ pc = "s_getfield" /\ Top(stack).kind # "table"
  \/ pc = "s_call" /\ Callee(stack, 1).kind # "function"

\* C12: if the host's defer global is missing when schedule is called, then
\* after schedule exits the registry holds no entry for the closure (a handle
\* that was created has been released).
C12_MissingDeferLeavesNoEntry ==
  [][ (op = "schedule" /\ DeferMissing /\ pc' \in {"returned", "raised"}) =>
         cur \notin {c \in Closures : \E i \in 1..Len(reg') : reg'[i] = ClosureFn(c)} ]_vars

\* schedule holds the local `luaref` and has not yet released it.
HoldsRef == pc \in {"s_rawgeti", "s_call", "s_pop", "s_unref"}

\* C13: a handle is never used after its release: no handle is released
\* twice; whenever the bridge is about to read or release through `luaref`,
\* it is the handle of the closure being scheduled, not yet released, and its
\* slot holds that closure (also when luaL_ref handed out a recycled key);
\* a closure the host invoked had no registry entry left to go through.
C13_NoUseAfterRelease ==
  /\ \A c \in Closures : released[c] <= 1
  /\ HoldsRef =>
       /\ luaref = handle[cur]
       /\ released[cur] = 0
       /\ lua_rawgeti(reg, luaref) = ClosureFn(cur)
  /\ \A c \in Closures :
       released[c] = 1 => (c \notin Registered /\ ~(c = cur /\ HoldsRef))
  /\ \A c \in Closures : invoked[c] >= 1 => c \notin Registered

C13_Witness ==
  /\ cur = 2 /\ pc = "s_unref"
  /\ released[1] = 1 /\ handle[2] = handle[1]
  /\ invoked[1] = 1

\* The interactions of a whole schedule call that uses the reference h.
ScheduleOrder(h) ==
  << I("getglobal", "vim", <<>>, 0, 0),
     I("getfield", "schedule", <<>>, -1, 0),
     I("ref", "", <<>>, h, 0),
     I("rawgeti", "", <<>>, h, 0),
     I("call", "", <<>>, 1, 0),
     I("pop", "", <<>>, 1, 0),
     I("unref", "", <<>>, h, 0) >>

\* C14: the interactions of schedule come in this order: the global `vim`,
\* its field `schedule` (of the top of the stack), the registered closure read
\* from the registry by its handle, the call with one argument and no result,
\* the pop of one value, and last the release of the handle; when the call is
\* made the stack holds, above what was there, the receiver, the entry point
\* and the closure's function, in that order.
C14_ScheduleOrder ==
  op = "schedule" =>
     /\ log = SubSeq(ScheduleOrder(luaref), 1, Len(log))
     /\ pc = "returned" => log = ScheduleOrder(handle[cur])
     /\ pc = "s_call" =>
          /\ Len(stack) = Len(stack0) + 3
          /\ SubSeq(stack, 1, Len(stack0)) = stack0
          /\ stack[Len(stack0) + 1] = VimTable
          /\ stack[Len(stack0) + 2] \in Field("schedule")
          /\ stack[Len(stack0) + 3] = ClosureFn(cur)

C14_Witness ==
  /\ op = "schedule" /\ pc = "returned"
  /\ Len(log) = 7 /\ log[7].api = "unref" /\ log[7].n = 2
  /\ stack # <<>>

\* C15: with a fair host, every closure whose deferral call succeeded is
\* eventually invoked, and never more than once, although the bridge released
\* the closure's handle right after the call and before the invocation.
C15_EventuallyInvokedOnce ==
  /\ [](\A c \in Closures : invoked[c] <= 1)
  /\ \A c \in Closures :
       (Queued(c) \/ exit[c] = "returned") ~> (invoked[c] = 1 /\ released[c] = 1)

C15_Witness ==
  \A c \in Closures :
    /\ exit[c] = "returned" /\ released[c] = 1 /\ c \notin Registered
    /\ Queued(c) /\ invoked[c] = 0

LookupsOnStack ==
  /\ Len(stack) >= Len(stack0) + 2
  /\ stack[Len(stack0) + 1] = VimTable
  /\ stack[Len(stack0) + 2] \in Field("schedule")

\* C17 (as stated): in every state where the registry holds the entry of a
\* schedule call in progress, the stack holds the receiver and the defer
\* function above the depth at which schedule started.
C17_EntryImpliesLookupsOnStack ==
  (op = "schedule" /\ exit[cur] = "running" /\ cur \in Registered) => LookupsOnStack

\* C17 (amended): the closure is registered only after `vim` and its field
\* have been pushed: until line 55 has run there is no entry and no handle;
\* from the registration up to the deferral call the entry exists and the
\* stack holds the receiver and the defer function above the starting depth;
\* a lookup that raises before the registration leaves the registry as it was.
C17_RegisteredAfterLookups ==
  op = "schedule" =>
     /\ pc \in {"s_getglobal", "s_getfield", "s_register"} =>
          (cur \notin Registered /\ handle[cur] = 0 /\ reg = reg0)
     /\ pc \in {"s_rawgeti", "s_call"} =>
          (cur \in Registered /\ handle[cur] # 0 /\ LookupsOnStack)
     /\ (pc = "raised" /\ log[Len(log)].api = "getfield") =>
          (cur \notin Registered /\ handle[cur] = 0 /\ reg = reg0)

C17_Witness ==
  /\ op = "schedule" /\ pc = "raised" /\ log[Len(log)].api = "getfield"
  /\ cur = 2 /\ handle[2] = 0 /\ 1 \in Registered
  /\ stack0 # <<>>

\* C18: print never changes the registry: for every input, valid or not, and
\* whether or not the called global raises, every step of print leaves the
\* registry entries, the free list, the handles and the host's queue as they
\* are, and neither invokes nor releases a scheduled closure.
C18_PrintLeavesRegistry ==
  [][ op' = "print" =>
        /\ reg' = reg /\ free' = free /\ reg' = reg0'
        /\ handle' = handle /\ released' = released
        /\ invoked' = invoked /\ once' = once
        /\ queue' = queue ]_vars

C18_Witness ==
  /\ op = "print" /\ pc = "raised" /\ ~EmbeddedNul(arg)
  /\ Registered # {} /\ queue # <<>>
  /\ reg = reg0

====
